---------------------------- MODULE Spec2Model ----------------------------
(***************************************************************************)
(* A model of GigaChat_for_VSA 4.0: the Streamlit session state            *)
(* (state.py), one script run of the application (app.py: main,            *)
(* render_sidebar, render_chat) and the GigaChat client wrapper            *)
(* (gigachat_client.py: settings resolution, client creation with the TLS  *)
(* pre-flight, the completion request and the answer.user unwrapping).     *)
(*                                                                         *)
(* Text is a sequence of symbols: a symbol is one character ("{", ":",     *)
(* the quote, a blank, a digit) or one word.  Python values are tagged     *)
(* records, so that a value of any type can stand where the code does not  *)
(* check the type.                                                         *)
(***************************************************************************)
EXTENDS Integers, Sequences, FiniteSets, TLC

-----------------------------------------------------------------------------
(* Python values *)

PyNone == [t |-> "none"]
PyBool(b) == [t |-> "bool", v |-> b]
PyInt(n) == [t |-> "int", v |-> n]
PyStr(s) == [t |-> "str", v |-> s]
PyList(xs) == [t |-> "list", v |-> xs]
\* a dict is a function from its keys (texts) to its values
PyDict(f) == [t |-> "dict", v |-> f]

EmptyDict == PyDict(<<>>)

\* bool(x) of Python: None, False, 0, "", [] and {} are falsy
Truthy(x) ==
    CASE x.t = "none" -> FALSE
      [] x.t = "bool" -> x.v
      [] x.t = "int" -> x.v # 0
      [] x.t = "str" -> Len(x.v) > 0
      [] x.t = "list" -> Len(x.v) > 0
      [] x.t = "dict" -> DOMAIN x.v # {}

\* `a or b` of Python
PyOr(a, b) == IF Truthy(a) THEN a ELSE b

-----------------------------------------------------------------------------
(* json.loads, on texts over the symbols below: objects, arrays, strings,  *)
(* non-negative integers, null, true, false, blanks between tokens.        *)

Quote == "\""
Digits == {"0", "1"}
DigitVal(c) == IF c = "1" THEN 1 ELSE 0

ParseOk(val, pos) == [ok |-> TRUE, val |-> val, pos |-> pos]
ParseFail(pos) == [ok |-> FALSE, val |-> PyNone, pos |-> pos]

At(s, i, c) == i <= Len(s) /\ s[i] = c

RECURSIVE SkipWs(_, _)
SkipWs(s, i) == IF At(s, i, " ") THEN SkipWs(s, i + 1) ELSE i

\* the index of the closing quote of the string literal opened before i, or 0
RECURSIVE ClosingQuote(_, _)
ClosingQuote(s, i) ==
    IF i > Len(s) THEN 0
    ELSE IF s[i] = Quote THEN i
    ELSE ClosingQuote(s, i + 1)

\* s[i] is the opening quote
ParseString(s, i) ==
    LET j == ClosingQuote(s, i + 1) IN
    IF j = 0 THEN ParseFail(i)
    ELSE ParseOk(PyStr(SubSeq(s, i + 1, j - 1)), j + 1)

RECURSIVE ScanDigits(_, _, _)
ScanDigits(s, i, acc) ==
    IF i <= Len(s) /\ s[i] \in Digits
    THEN ScanDigits(s, i + 1, acc * 10 + DigitVal(s[i]))
    ELSE ParseOk(PyInt(acc), i)

\* s[i] is a digit; a leading 0 ends the number
ParseNumber(s, i) ==
    IF s[i] = "0" THEN ParseOk(PyInt(0), i + 1) ELSE ScanDigits(s, i, 0)

RECURSIVE ParseValue(_, _)
RECURSIVE ParseMembers(_, _, _)
RECURSIVE ParseItems(_, _, _)

\* the members of an object from the key at i on; a repeated key keeps the
\* last value
ParseMembers(s, i, acc) ==
    IF ~At(s, i, Quote) THEN ParseFail(i)
    ELSE
      LET k == ParseString(s, i) IN
      IF ~k.ok THEN ParseFail(i)
      ELSE
        LET c == SkipWs(s, k.pos) IN
        IF ~At(s, c, ":") THEN ParseFail(c)
        ELSE
          LET v == ParseValue(s, SkipWs(s, c + 1)) IN
          IF ~v.ok THEN ParseFail(v.pos)
          ELSE
            LET d == SkipWs(s, v.pos)
                acc2 == (k.val.v :> v.val) @@ acc
            IN
            IF At(s, d, "}") THEN ParseOk(PyDict(acc2), d + 1)
            ELSE IF At(s, d, ",") THEN ParseMembers(s, SkipWs(s, d + 1), acc2)
            ELSE ParseFail(d)

\* the items of an array from the value at i on
ParseItems(s, i, acc) ==
    LET v == ParseValue(s, i) IN
    IF ~v.ok THEN ParseFail(v.pos)
    ELSE
      LET d == SkipWs(s, v.pos)
          acc2 == Append(acc, v.val)
      IN
      IF At(s, d, "]") THEN ParseOk(PyList(acc2), d + 1)
      ELSE IF At(s, d, ",") THEN ParseItems(s, SkipWs(s, d + 1), acc2)
      ELSE ParseFail(d)

\* one JSON value starting at i (no blank before it)
ParseValue(s, i) ==
    IF i > Len(s) THEN ParseFail(i)
    ELSE IF s[i] = Quote THEN ParseString(s, i)
    ELSE IF s[i] = "{" THEN
        LET j == SkipWs(s, i + 1) IN
        IF At(s, j, "}") THEN ParseOk(EmptyDict, j + 1)
        ELSE ParseMembers(s, j, <<>>)
    ELSE IF s[i] = "[" THEN
        LET j == SkipWs(s, i + 1) IN
        IF At(s, j, "]") THEN ParseOk(PyList(<<>>), j + 1)
        ELSE ParseItems(s, j, <<>>)
    ELSE IF s[i] = "null" THEN ParseOk(PyNone, i + 1)
    ELSE IF s[i] = "true" THEN ParseOk(PyBool(TRUE), i + 1)
    ELSE IF s[i] = "false" THEN ParseOk(PyBool(FALSE), i + 1)
    ELSE IF s[i] \in Digits THEN ParseNumber(s, i)
    ELSE ParseFail(i)

\* json.loads(s): the value, or JSONDecodeError (ok = FALSE) when s is not
\* one JSON value with nothing but blanks around it
JsonLoads(s) ==
    LET r == ParseValue(s, SkipWs(s, 1)) IN
    IF r.ok /\ SkipWs(s, r.pos) = Len(s) + 1 THEN r ELSE ParseFail(r.pos)

-----------------------------------------------------------------------------
(* The unwrapping of the reply at the end of generate_reply *)

\* the outcome of a call: a returned value, or a raised exception with the
\* text str(exc) gives
Returned(x) == [exc |-> "none", msg |-> <<>>, value |-> x]
Raised(cls, msg) == [exc |-> cls, msg |-> msg, value |-> PyNone]

\* type(x).__name__
TypeName(x) ==
    CASE x.t = "none" -> "NoneType"
      [] x.t = "bool" -> "bool"
      [] x.t = "int" -> "int"
      [] x.t = "str" -> "str"
      [] x.t = "list" -> "list"
      [] x.t = "dict" -> "dict"

\* x.get(key, default): a method of dict only
PyGet(x, key, default) ==
    IF x.t # "dict"
    THEN Raised("AttributeError",
                <<"'", TypeName(x), "' object has no attribute 'get'">>)
    ELSE Returned(IF key \in DOMAIN x.v THEN x.v[key] ELSE default)

\* the nested value taken whenever it is not None
NormalizeUnwrapsNotNone(raw_content) ==
    LET data == JsonLoads(raw_content) IN
    IF ~data.ok THEN Returned(PyStr(raw_content))
    ELSE
      LET answer == PyGet(data.val, <<"answer">>, EmptyDict) IN
      IF answer.exc # "none" THEN answer
      ELSE
        LET user == PyGet(answer.value, <<"user">>, PyNone) IN
        IF user.exc # "none" THEN user
        ELSE Returned(IF user.value # PyNone THEN user.value
                      ELSE PyStr(raw_content))

\* try: data = json.loads(raw_content)
\*      reply_text = data.get("answer", {}).get("user") or raw_content
\* except (json.JSONDecodeError, TypeError): reply_text = raw_content
Normalize(raw_content) ==
    LET data == JsonLoads(raw_content) IN
    IF ~data.ok THEN Returned(PyStr(raw_content))
    ELSE
      LET answer == PyGet(data.val, <<"answer">>, EmptyDict) IN
      IF answer.exc # "none" THEN answer
      ELSE
        LET user == PyGet(answer.value, <<"user">>, PyNone) IN
        IF user.exc # "none" THEN user
        ELSE Returned(PyOr(user.value, PyStr(raw_content)))

-----------------------------------------------------------------------------
(* config.py.  Mode names and the error prefix of app.py are written in    *)
(* Latin letters here; a prompt is the text loaded for its mode.           *)

\* list(AVAILABLE_MODES.keys())
ModeNames == <<"Assistent", "Coder", "Analyst">>

AVAILABLE_MODES ==
    [m \in {ModeNames[i] : i \in 1..Len(ModeNames)} |->
        [system_prompt |-> PyStr(<<"prompt of ", m>>)]]

\* temperature in hundredths: 0.1 is 10
DEFAULT_MODEL_PARAMS == [temperature |-> 10, max_tokens |-> 8192]

-----------------------------------------------------------------------------
(* state.py: st.session_state is a function from the keys that are set to  *)
(* their values.                                                           *)

NoSession == <<>>

Has(s, key) == key \in DOMAIN s
Set(s, key, value) == (key :> value) @@ s

\* the outcome of init_state: the session it leaves and the exception that
\* left it, if any
InitStateOverwritesMessages(s) ==
    LET s1 == Set(s, "messages", <<>>)
        s2 == IF ~Has(s1, "mode") THEN Set(s1, "mode", ModeNames[1]) ELSE s1
    IN
    IF ~Has(s2, "system_prompt") /\ s2.mode \notin DOMAIN AVAILABLE_MODES
    THEN [session |-> s2, exc |-> "KeyError"]
    ELSE
      LET s3 == IF ~Has(s2, "system_prompt")
                THEN Set(s2, "system_prompt", AVAILABLE_MODES[s2.mode].system_prompt)
                ELSE s2
          s4 == IF ~Has(s3, "model_params")
                THEN Set(s3, "model_params", DEFAULT_MODEL_PARAMS) ELSE s3
          s5 == IF ~Has(s4, "is_thinking") THEN Set(s4, "is_thinking", FALSE) ELSE s4
          s6 == IF ~Has(s5, "last_error") THEN Set(s5, "last_error", PyNone) ELSE s5
      IN [session |-> s6, exc |-> "none"]

InitStateSkipsLastError(s) ==
    LET s1 == IF ~Has(s, "messages") THEN Set(s, "messages", <<>>) ELSE s
        s2 == IF ~Has(s1, "mode") THEN Set(s1, "mode", ModeNames[1]) ELSE s1
    IN
    IF ~Has(s2, "system_prompt") /\ s2.mode \notin DOMAIN AVAILABLE_MODES
    THEN [session |-> s2, exc |-> "KeyError"]
    ELSE
      LET s3 == IF ~Has(s2, "system_prompt")
                THEN Set(s2, "system_prompt", AVAILABLE_MODES[s2.mode].system_prompt)
                ELSE s2
          s4 == IF ~Has(s3, "model_params")
                THEN Set(s3, "model_params", DEFAULT_MODEL_PARAMS) ELSE s3
          s5 == IF ~Has(s4, "is_thinking") THEN Set(s4, "is_thinking", FALSE) ELSE s4
      IN [session |-> s5, exc |-> "none"]

InitState(s) ==
    LET s1 == IF ~Has(s, "messages") THEN Set(s, "messages", <<>>) ELSE s
        s2 == IF ~Has(s1, "mode") THEN Set(s1, "mode", ModeNames[1]) ELSE s1
    IN
    \* AVAILABLE_MODES[st.session_state.mode] of a mode that is no key
    IF ~Has(s2, "system_prompt") /\ s2.mode \notin DOMAIN AVAILABLE_MODES
    THEN [session |-> s2, exc |-> "KeyError"]
    ELSE
      LET s3 == IF ~Has(s2, "system_prompt")
                THEN Set(s2, "system_prompt", AVAILABLE_MODES[s2.mode].system_prompt)
                ELSE s2
          s4 == IF ~Has(s3, "model_params")
                THEN Set(s3, "model_params", DEFAULT_MODEL_PARAMS) ELSE s3
          s5 == IF ~Has(s4, "is_thinking") THEN Set(s4, "is_thinking", FALSE) ELSE s4
          s6 == IF ~Has(s5, "last_error") THEN Set(s5, "last_error", PyNone) ELSE s5
      IN [session |-> s6, exc |-> "none"]

\* message = {"role": role, "content": content}; message.update(meta)
NewMessage(role, content, meta) ==
    meta @@ ("role" :> role) @@ ("content" :> content)

AddMessagePrepends(s, role, content, meta) ==
    Set(s, "messages", <<NewMessage(role, content, meta)>> \o s.messages)

AddMessage(s, role, content, meta) ==
    Set(s, "messages", Append(s.messages, NewMessage(role, content, meta)))

ClearChatResetsParams(s) ==
    Set(Set(Set(s, "messages", <<>>), "last_error", PyNone),
        "model_params", DEFAULT_MODEL_PARAMS)

ClearChat(s) == Set(Set(s, "messages", <<>>), "last_error", PyNone)

SetError(s, error_text) == Set(s, "last_error", error_text)

-----------------------------------------------------------------------------
(* gigachat_client.py: settings.  The environment is a function from the   *)
(* variables that are set to their texts; st.secrets either has no         *)
(* "gigachat" section or has one, a function from its keys to values.      *)
(* streamlit is importable (st is not None) and st.secrets can be read.    *)

SettingKeys == {"credentials", "scope", "model", "ca_bundle_file"}

\* d.get(key, default) of a mapping with text keys
Lookup(d, key, default) == IF key \in DOMAIN d THEN d[key] ELSE default

GetSettingsFromEnv(environ) ==
    [credentials |-> Lookup(environ, "GIGACHAT_CREDENTIALS", PyNone),
     scope |-> Lookup(environ, "GIGACHAT_SCOPE", PyNone),
     model |-> Lookup(environ, "GIGACHAT_MODEL", PyStr(<<"GigaChat-2">>)),
     ca_bundle_file |-> Lookup(environ, "GIGACHAT_CA_BUNDLE_FILE", PyNone)]

GetSettingsFromStreamlit(st_secrets) ==
    IF ~st_secrets.has_gigachat THEN <<>>
    ELSE [credentials |-> Lookup(st_secrets.cfg, "credentials", PyNone),
          scope |-> Lookup(st_secrets.cfg, "scope", PyNone),
          model |-> Lookup(st_secrets.cfg, "model", PyStr(<<"GigaChat-2">>)),
          ca_bundle_file |-> Lookup(st_secrets.cfg, "ca_bundle_file", PyNone)]

\* for key, value in secrets_settings.items():
\*     if value is not None: settings[key] = value
ResolveSettings(environ, st_secrets) ==
    LET settings == GetSettingsFromEnv(environ)
        secrets_settings == GetSettingsFromStreamlit(st_secrets)
    IN [key \in SettingKeys |->
          IF key \in DOMAIN secrets_settings /\ secrets_settings[key] # PyNone
          THEN secrets_settings[key]
          ELSE settings[key]]

\* str(x) of a text or of None
PyText(x) == IF x.t = "str" THEN x.v ELSE <<"None">>

\* the check of _create_client before any request
CredentialsCheckOnlyNone(settings) ==
    IF settings.credentials = PyNone \/ settings.scope = PyNone
    THEN Raised("RuntimeError", <<"Ne zadany parametry GigaChat (credentials/scope).">>)
    ELSE Returned(PyNone)

CredentialsCheck(settings) ==
    IF ~Truthy(settings.credentials) \/ ~Truthy(settings.scope)
    THEN Raised("RuntimeError", <<"Ne zadany parametry GigaChat (credentials/scope).">>)
    ELSE Returned(PyNone)

\* requests.get(test_url, timeout=5, verify=ca_bundle_file)
PreflightRequest(settings) ==
    [call |-> "GET https://gigachat.devices.sberbank.ru",
     body |-> [verify |-> settings.ca_bundle_file]]

PreflightNeverEnds == {}

\* what _create_client makes of the way the pre-flight request ended
PreflightOutcomes == {"response", "SSLError", "other error"}

AfterPreflightSwallowsAll(outcome, settings) == Returned(PyNone)

AfterPreflight(outcome, settings) ==
    IF outcome = "SSLError"
    THEN Raised("RuntimeError",
                <<"Oshibka proverki SSL-sertifikata GigaChat. Prover' ca_bundle_file='">>
                \o PyText(settings.ca_bundle_file) \o <<"': ", "ssl_err">>)
    ELSE Returned(PyNone)

-----------------------------------------------------------------------------
(* gigachat_client.py: the request of generate_reply *)

WireRoleKeepsUnknown(m) == Lookup(m, "role", "user")

\* role_str = m.get("role", "user"); the if/elif chain over role_str
WireRole(m) ==
    LET role_str == Lookup(m, "role", "user") IN
    IF role_str \in {"user", "assistant", "system"} THEN role_str ELSE "user"

SdkMessages(messages, system_prompt) ==
    (IF Truthy(system_prompt)
     THEN <<[role |-> "system", content |-> system_prompt]>> ELSE <<>>)
    \o [i \in 1..Len(messages) |->
          [role |-> WireRole(messages[i]),
           content |-> Lookup(messages[i], "content", PyStr(<<>>))]]

\* getattr(st.session_state, "model_name", "GigaChat-2")
ModelNameOf(s) == Lookup(s, "model_name", PyStr(<<"GigaChat-2">>))

\* Chat(messages=..., temperature=..., max_tokens=..., model=...)
Payload(s, settings) ==
    [messages |-> SdkMessages(s.messages, s.system_prompt),
     temperature |-> s.model_params.temperature,
     max_tokens |-> s.model_params.max_tokens,
     model |-> PyOr(ModelNameOf(s), settings.model)]

ChatRequest(s, settings) ==
    [call |-> "client.chat", body |-> Payload(s, settings)]

-----------------------------------------------------------------------------
(* Bounds and the inputs drawn *)

\* the longest transcript a submission may produce
MaxMsgs == 4
\* the add_message calls of SpecAppend
MaxAppends == 3
\* the init_state calls of SpecInit
MaxInitCalls == 2

\* what st.chat_input returns: None, or the text submitted
UserInputs == {PyNone, PyStr(<<"q1">>), PyStr(<<"q2">>)}

Str(w) == <<Quote, w, Quote>>
Obj(key, value) == <<"{">> \o Str(key) \o <<":">> \o value \o <<"}">>
Obj2(k1, v1, k2, v2) ==
    <<"{">> \o Str(k1) \o <<":">> \o v1 \o <<",", " ">> \o Str(k2) \o <<":">> \o v2 \o <<"}">>

Envelope(text) == Obj("answer", Obj("user", text))
EnvelopeX == Envelope(Str("X"))

\* JSON texts of values of every type, falsy and truthy
LeafTexts ==
    { Str("X"), <<Quote, Quote>>, <<"null">>, <<"true">>, <<"false">>,
      <<"0">>, <<"1">>, <<"[", "]">>, <<"[", "1", "]">>, <<"{", "}">>,
      Obj("a", <<"1">>) }

AnswerTexts ==
    LeafTexts \cup { Obj("user", l) : l \in LeafTexts }
    \cup { Obj("reasoning", Str("r")),
           Obj2("reasoning", Str("r"), "user", Str("X")),
           Obj2("user", Str("Y"), "user", Str("X")) }

JsonTexts ==
    AnswerTexts \cup { Obj("answer", a) : a \in AnswerTexts }
    \cup { Obj("other", Str("shape")),
           <<" ">> \o EnvelopeX \o <<" ">>,
           Obj2("answer", <<"1">>, "answer", Obj("user", Str("X"))) }

\* texts that are no JSON: plain text, the empty text, a cut envelope,
\* an envelope followed by more text
NonJsonTexts ==
    { <<"plain", " ", "text">>, <<"not", " ", "json", " ", "at", " ", "all">>,
      <<>>, EnvelopeX \o <<"X">>, <<"0", "1">> }
    \cup { SubSeq(EnvelopeX, 1, n) : n \in 1..(Len(EnvelopeX) - 1) }

\* the raw replies response.choices[0].message.content may hold
RawReplies == JsonTexts \cup NonJsonTexts

\* the raw replies drawn in whole sessions
MainReplies ==
    { <<"plain", " ", "text">>, EnvelopeX, Envelope(<<"1">>), <<"[", "1", "]">>,
      Obj("other", Str("shape")) }

\* the exceptions client.chat(payload) or the reading of its response raise
ChatErrors ==
    { Raised("ConnectError", <<"connection failed">>),
      Raised("AuthenticationError", <<"401">>),
      Raised("IndexError", <<"list index out of range">>) }

\* the selectbox of models
ModelOptions == <<"GigaChat-2", "GigaChat-2-Pro", "GigaChat-2-Max">>

\* the ranges of the two sliders, temperature in hundredths
TemperatureMin == 0
TemperatureMax == 100
MaxTokensMin == 256
MaxTokensMax == 4096

\* slider positions tried besides the value shown
TemperatureSamples == {0, 50}
MaxTokensSamples == {256, 4096}

Text(w) == PyStr(<<w>>)

\* environments and secrets of whole sessions
MainEnvs ==
    { <<>>,
      ("GIGACHAT_CREDENTIALS" :> Text("env-cred")) @@ ("GIGACHAT_SCOPE" :> Text("env-scope")) }

MainSecrets ==
    { [has_gigachat |-> FALSE, cfg |-> <<>>],
      [has_gigachat |-> TRUE,
       cfg |-> ("credentials" :> PyStr(<<>>)) @@ ("ca_bundle_file" :> Text("russian_trusted_root_ca.cer"))] }

\* the browser sessions served by the one process
SessionIds == {"A", "B", "C"}

\* the process before any session: config.py has built DEFAULT_MODEL_PARAMS
OnlyDefault == "default" :> DEFAULT_MODEL_PARAMS
NoParams == [sid \in SessionIds |-> "unset"]

-----------------------------------------------------------------------------
(* State *)

VARIABLES
    session,    \* st.session_state
    pc,         \* where the script run of this session stands
    raised,     \* the exception that ended the last script run, or "none"
    net,        \* the requests issued by the current script run, in order
    turn,       \* the turn of the current script run (history)
    calls,      \* the calls of init_state or add_message made (history,
                \* SpecInit and SpecAppend)
    clicked,    \* whether the clear button was pressed in this script run
    environ,    \* os.environ
    st_secrets, \* st.secrets
    heap,       \* the dicts of sampling parameters of the process, by
                \* identity: DEFAULT_MODEL_PARAMS and the copies made of it
    model_params_of
                \* the dict each session's model_params refers to (SpecParams;
                \* the specifications of one session hold the dict by value
                \* in session.model_params)

vars == <<session, pc, raised, net, turn, calls, clicked, environ, st_secrets, heap, model_params_of>>

NoTurn ==
    [phase |-> "none", before |-> <<>>, input |-> PyNone, preflight |-> "none",
     raw |-> PyNone, exc |-> "none", msg |-> <<>>]

Init ==
    /\ session = NoSession
    /\ pc = "idle"
    /\ raised = "none"
    /\ net = <<>>
    /\ turn = NoTurn
    /\ calls = <<>>
    /\ clicked = FALSE
    /\ environ \in MainEnvs
    /\ st_secrets \in MainSecrets
    /\ heap = OnlyDefault
    /\ model_params_of = NoParams

-----------------------------------------------------------------------------
(* app.py: one script run is main(): init_state, the controls of           *)
(* render_sidebar in their order, render_chat; render_chat blocks in the   *)
(* two requests of generate_reply.                                         *)

\* main() up to the return of init_state
Main ==
    /\ pc = "idle"
    /\ LET r == InitState(session) IN
         /\ session' = r.session
         /\ raised' = r.exc
         /\ pc' = IF r.exc = "none" THEN "sidebar_mode" ELSE "idle"
    /\ net' = <<>>
    /\ turn' = NoTurn
    /\ clicked' = FALSE
    /\ UNCHANGED <<calls, environ, st_secrets, heap, model_params_of>>

ModeSet == {ModeNames[i] : i \in 1..Len(ModeNames)}

SelectModeKeepsPrompt(s, selected_mode) ==
    IF selected_mode # s.mode THEN Set(s, "mode", selected_mode) ELSE s

SelectModeClearsChat(s, selected_mode) ==
    IF selected_mode # s.mode
    THEN ClearChat(Set(Set(s, "mode", selected_mode),
                       "system_prompt", AVAILABLE_MODES[selected_mode].system_prompt))
    ELSE s

\* if selected_mode != st.session_state.mode: ...
SelectMode(s, selected_mode) ==
    IF selected_mode # s.mode
    THEN Set(Set(s, "mode", selected_mode),
             "system_prompt", AVAILABLE_MODES[selected_mode].system_prompt)
    ELSE s

SidebarMode ==
    /\ pc = "sidebar_mode"
    /\ \E selected_mode \in ModeSet : session' = SelectMode(session, selected_mode)
    /\ pc' = "sidebar_model"
    /\ UNCHANGED <<raised, net, turn, calls, clicked, environ, st_secrets, heap, model_params_of>>

SelectModelClearsError(s, selected_model) ==
    SetError(Set(s, "model_name", PyStr(<<selected_model>>)), PyNone)

\* st.session_state.model_name = selected_model
SelectModel(s, selected_model) == Set(s, "model_name", PyStr(<<selected_model>>))

SidebarModel ==
    /\ pc = "sidebar_model"
    /\ \E i \in 1..Len(ModelOptions) : session' = SelectModel(session, ModelOptions[i])
    /\ pc' = "sidebar_params"
    /\ UNCHANGED <<raised, net, turn, calls, clicked, environ, st_secrets, heap, model_params_of>>

SetParams(s, temperature, max_tokens) ==
    Set(s, "model_params", [temperature |-> temperature, max_tokens |-> max_tokens])

\* a slider returns the value it shows or the position the user moved it to
SidebarParams ==
    /\ pc = "sidebar_params"
    /\ \E temperature \in TemperatureSamples \cup {session.model_params.temperature},
          max_tokens \in MaxTokensSamples \cup {session.model_params.max_tokens} :
          session' = SetParams(session, temperature, max_tokens)
    /\ pc' = "sidebar_clear"
    /\ UNCHANGED <<raised, net, turn, calls, clicked, environ, st_secrets, heap, model_params_of>>

\* if st.sidebar.button(...): clear_chat()
SidebarClear ==
    /\ pc = "sidebar_clear"
    /\ \E button \in BOOLEAN :
          /\ session' = IF button THEN ClearChat(session) ELSE session
          /\ clicked' = button
    /\ pc' = "render_chat"
    /\ UNCHANGED <<raised, net, turn, calls, environ, st_secrets, heap, model_params_of>>

ErrorPrefix == <<"Oshibka pri obrashchenii k GigaChat: ">>

CaughtOnlyRuntimeError(cls) == cls = "RuntimeError"

\* except Exception: every exception of the model is an Exception
Caught(cls) == TRUE

HandlerKeepsThinking(s, e) ==
    SetError(s, PyStr(ErrorPrefix \o e.msg))

HandlerDropsQuestion(s, e) ==
    Set(Set(SetError(s, PyStr(ErrorPrefix \o e.msg)), "is_thinking", FALSE),
        "messages", SubSeq(s.messages, 1, Len(s.messages) - 1))

\* the except branch of render_chat
Handler(s, e) ==
    Set(SetError(s, PyStr(ErrorPrefix \o e.msg)), "is_thinking", FALSE)

\* generate_reply raised e in state s during turn t: the handler runs if it
\* catches e, otherwise e ends the script run
EndRaised(s, e, t) ==
    /\ session' = IF Caught(e.exc) THEN Handler(s, e) ELSE s
    /\ raised' = IF Caught(e.exc) THEN "none" ELSE e.exc
    /\ pc' = "idle"
    /\ turn' = [t EXCEPT !.phase = "failed", !.exc = e.exc, !.msg = e.msg]

SubmitSkipsSetError(s, user_input) ==
    Set(AddMessage(s, "user", user_input, <<>>), "is_thinking", TRUE)

\* set_error(None); add_message("user", user_input); is_thinking = True
Submit(s, user_input) ==
    Set(AddMessage(SetError(s, PyNone), "user", user_input, <<>>),
        "is_thinking", TRUE)

\* render_chat without a submission
RenderChatIdle ==
    /\ pc = "render_chat"
    /\ \E user_input \in UserInputs : ~Truthy(user_input)
    /\ pc' = "idle"
    /\ UNCHANGED <<session, raised, net, turn, calls, clicked, environ, st_secrets, heap, model_params_of>>

\* render_chat with a submission, up to the first request of generate_reply
\* or to the failure before it
RenderChatSubmit ==
    /\ pc = "render_chat"
    /\ Len(session.messages) + 2 <= MaxMsgs
    /\ \E user_input \in UserInputs :
         /\ Truthy(user_input)
         /\ LET s == Submit(session, user_input)
                settings == ResolveSettings(environ, st_secrets)
                check == CredentialsCheck(settings)
                t == [NoTurn EXCEPT !.before = session.messages, !.input = user_input]
            IN
            IF check.exc # "none"
            THEN /\ EndRaised(s, check, t)
                 /\ net' = net
            ELSE /\ session' = s
                 /\ raised' = raised
                 /\ pc' = "preflight"
                 /\ turn' = [t EXCEPT !.phase = "dispatched"]
                 /\ net' = Append(net, PreflightRequest(settings))
    /\ UNCHANGED <<calls, clicked, environ, st_secrets, heap, model_params_of>>

\* the pre-flight request ends; _create_client raises or returns the client
\* and client.chat(payload) is issued
PreflightReturn ==
    /\ pc = "preflight"
    /\ \E outcome \in PreflightOutcomes :
         LET settings == ResolveSettings(environ, st_secrets)
             r == AfterPreflight(outcome, settings)
         IN
         IF r.exc # "none"
         THEN /\ EndRaised(session, r, [turn EXCEPT !.preflight = outcome])
              /\ net' = net
         ELSE /\ pc' = "chat"
              /\ net' = Append(net, ChatRequest(session, settings))
              /\ turn' = [turn EXCEPT !.preflight = outcome]
              /\ UNCHANGED <<session, raised>>
    /\ UNCHANGED <<calls, clicked, environ, st_secrets, heap, model_params_of>>

\* client.chat raises, or the response cannot be read
ChatRaises ==
    /\ pc = "chat"
    /\ \E e \in ChatErrors : EndRaised(session, e, turn)
    /\ UNCHANGED <<net, calls, clicked, environ, st_secrets, heap, model_params_of>>

FinishKeepsThinking(s, reply_text) == AddMessage(s, "assistant", reply_text, <<>>)

\* add_message("assistant", reply_text); is_thinking = False
Finish(s, reply_text) ==
    Set(AddMessage(s, "assistant", reply_text, <<>>), "is_thinking", FALSE)

\* client.chat returns a response whose first choice holds raw_content:
\* the rest of generate_reply and of render_chat
ChatReturns(replies) ==
    /\ pc = "chat"
    /\ \E raw_content \in replies :
         LET r == Normalize(raw_content) IN
         IF r.exc # "none"
         THEN EndRaised(session, r, [turn EXCEPT !.raw = PyStr(raw_content)])
         ELSE /\ session' = Finish(session, r.value)
              /\ raised' = raised
              /\ pc' = "idle"
              /\ turn' = [turn EXCEPT !.phase = "succeeded",
                                      !.raw = PyStr(raw_content)]
    /\ UNCHANGED <<net, calls, clicked, environ, st_secrets, heap, model_params_of>>

ChatReturn == ChatReturns(MainReplies)

Next ==
    \/ Main
    \/ SidebarMode
    \/ SidebarModel
    \/ SidebarParams
    \/ SidebarClear
    \/ RenderChatIdle
    \/ RenderChatSubmit
    \/ PreflightReturn
    \/ ChatRaises
    \/ ChatReturn

Spec == Init /\ [][Next]_vars

\* SpecLive: the two requests of generate_reply end.  requests.get has
\* timeout=5; client.chat returns or raises.  Nothing obliges the user to
\* start another script run.
SpecLive ==
    /\ Init /\ [][Next]_vars
    /\ WF_vars(PreflightReturn)
    /\ WF_vars(ChatRaises \/ ChatReturn)

-----------------------------------------------------------------------------
(* The first turn of a session, from the state in which render_chat is     *)
(* about to read the chat input                                            *)

\* the sessions the first script run leaves before render_chat
FirstRunSessions ==
    { SelectModel(SelectMode(InitState(NoSession).session, m), ModelOptions[i]) :
        m \in ModeSet, i \in 1..Len(ModelOptions) }

ValidEnv ==
    ("GIGACHAT_CREDENTIALS" :> Text("env-cred")) @@ ("GIGACHAT_SCOPE" :> Text("env-scope"))
NoSecrets == [has_gigachat |-> FALSE, cfg |-> <<>>]

\* SpecNorm: the completion request of a first turn is outstanding and
\* returns any of the raw replies
InitNorm ==
    /\ \E s \in FirstRunSessions, u \in UserInputs :
         /\ Truthy(u)
         /\ session = Submit(s, u)
         /\ turn = [NoTurn EXCEPT !.phase = "dispatched", !.input = u,
                                  !.preflight = "response"]
         /\ net = <<PreflightRequest(ResolveSettings(ValidEnv, NoSecrets)),
                    ChatRequest(Submit(s, u), ResolveSettings(ValidEnv, NoSecrets))>>
    /\ pc = "chat"
    /\ raised = "none"
    /\ calls = <<>>
    /\ clicked = FALSE
    /\ environ = ValidEnv
    /\ st_secrets = NoSecrets
    /\ heap = OnlyDefault
    /\ model_params_of = NoParams

ChatReturnAny == ChatReturns(RawReplies)

SpecNorm == InitNorm /\ [][ChatReturnAny]_vars

\* SpecSettings: a first turn under every environment and secrets store
Opt(key, values) == {<<>>} \cup { key :> v : v \in values }

AllEnvs ==
    { a @@ b @@ c @@ d :
        a \in Opt("GIGACHAT_CREDENTIALS", {PyStr(<<>>), Text("env-cred")}),
        b \in Opt("GIGACHAT_SCOPE", {PyStr(<<>>), Text("env-scope")}),
        c \in Opt("GIGACHAT_CA_BUNDLE_FILE", {Text("env.cer")}),
        d \in Opt("GIGACHAT_MODEL", {Text("GigaChat-2-Max")}) }

AllSecrets ==
    {NoSecrets} \cup
    { [has_gigachat |-> TRUE, cfg |-> a @@ b @@ c @@ d] :
        a \in Opt("credentials", {PyStr(<<>>), Text("secret-cred")}),
        b \in Opt("scope", {PyStr(<<>>), Text("secret-scope")}),
        c \in Opt("ca_bundle_file", {Text("secret.cer")}),
        d \in Opt("model", {Text("GigaChat-2-Pro")}) }

InitSettings ==
    /\ session \in FirstRunSessions
    /\ pc = "render_chat"
    /\ raised = "none"
    /\ net = <<>>
    /\ turn = NoTurn
    /\ calls = <<>>
    /\ clicked = FALSE
    /\ environ \in AllEnvs
    /\ st_secrets \in AllSecrets
    /\ heap = OnlyDefault
    /\ model_params_of = NoParams

NextSettings ==
    \/ RenderChatSubmit
    \/ PreflightReturn
    \/ ChatRaises
    \/ ChatReturn

SpecSettings == InitSettings /\ [][NextSettings]_vars

-----------------------------------------------------------------------------
(* The operations of state.py on their own *)

\* SpecInit: init_state called on a session with any of its keys set
PartialSessions ==
    { a @@ b @@ c @@ d @@ e @@ f @@ g :
        a \in Opt("messages", {<<>>, <<NewMessage("user", Text("q1"), <<>>)>>}),
        b \in Opt("mode", ModeSet \cup {"Unknown"}),
        c \in Opt("system_prompt",
                  {Text("custom prompt"), AVAILABLE_MODES["Coder"].system_prompt}),
        d \in Opt("model_params",
                  {DEFAULT_MODEL_PARAMS, [temperature |-> 50, max_tokens |-> 256]}),
        e \in Opt("is_thinking", BOOLEAN),
        f \in Opt("last_error", {PyNone, Text("old error")}),
        g \in Opt("model_name", {Text("GigaChat-2-Pro")}) }

InitPartial ==
    /\ session \in PartialSessions
    /\ pc = "idle"
    /\ raised = "none"
    /\ net = <<>>
    /\ turn = NoTurn
    /\ calls = <<>>
    /\ clicked = FALSE
    /\ environ = ValidEnv
    /\ st_secrets = NoSecrets
    /\ heap = OnlyDefault
    /\ model_params_of = NoParams

InitStateCall ==
    /\ Len(calls) < MaxInitCalls
    /\ LET r == InitState(session) IN
         /\ session' = r.session
         /\ raised' = r.exc
         /\ calls' = Append(calls, [op |-> "init_state", before |-> session,
                                    after |-> r.session, exc |-> r.exc])
    /\ UNCHANGED <<pc, net, turn, clicked, environ, st_secrets, heap, model_params_of>>

SpecInit == InitPartial /\ [][InitStateCall]_vars

\* SpecAppend: add_message called with any role, content and metadata
AppendRoles == {"user", "assistant", "system", "tool"}
AppendContents == {Text("a"), Text("b")}
AppendMetas == {<<>>, "timestamp" :> PyInt(1)}

InitAppend ==
    /\ session = InitState(NoSession).session
    /\ pc = "idle"
    /\ raised = "none"
    /\ net = <<>>
    /\ turn = NoTurn
    /\ calls = <<>>
    /\ clicked = FALSE
    /\ environ = ValidEnv
    /\ st_secrets = NoSecrets
    /\ heap = OnlyDefault
    /\ model_params_of = NoParams

AddMessageCall ==
    /\ Len(calls) < MaxAppends
    /\ \E role \in AppendRoles, content \in AppendContents, meta \in AppendMetas :
         /\ session' = AddMessage(session, role, content, meta)
         /\ calls' = Append(calls, [op |-> "add_message", role |-> role,
                                    content |-> content, meta |-> meta,
                                    before |-> session.messages])
    /\ UNCHANGED <<pc, raised, net, turn, clicked, environ, st_secrets, heap, model_params_of>>

SpecAppend == InitAppend /\ [][AddMessageCall]_vars

\* SpecWire: generate_reply called with any transcript and system prompt;
\* the state is the one in which its pre-flight request is outstanding
WireMessages ==
    { NewMessage("user", Text("q"), <<>>),
      NewMessage("assistant", Text("a"), <<>>),
      NewMessage("system", Text("s"), <<>>),
      NewMessage("tool", Text("t"), "timestamp" :> PyInt(1)),
      "content" :> Text("n") }

\* the longest transcript handed to generate_reply in SpecWire
MaxWire == 2

WireTranscripts ==
    UNION { [1..n -> WireMessages] : n \in 0..MaxWire }

WirePrompts == {PyNone, PyStr(<<>>), Text("prompt")}

InitWire ==
    /\ \E base \in FirstRunSessions, tr \in WireTranscripts, sp \in WirePrompts :
         session = Set(Set(Set(base, "messages", tr), "system_prompt", sp),
                       "is_thinking", TRUE)
    /\ pc = "preflight"
    /\ raised = "none"
    /\ net = <<PreflightRequest(ResolveSettings(ValidEnv, NoSecrets))>>
    /\ turn = [NoTurn EXCEPT !.phase = "dispatched"]
    /\ calls = <<>>
    /\ clicked = FALSE
    /\ environ = ValidEnv
    /\ st_secrets = NoSecrets
    /\ heap = OnlyDefault
    /\ model_params_of = NoParams

NextWire ==
    \/ PreflightReturn
    \/ ChatRaises
    \/ ChatReturn

SpecWire == InitWire /\ [][NextWire]_vars

\* SpecParams: several sessions of one process; each runs init_state and
\* then, any number of times, the sliders of the sidebar.  The dicts are
\* objects: a session's model_params is a reference into heap.
InitModelParamsAliases(h, r, sid) ==
    IF r[sid] = "unset"
    THEN [heap |-> h, ref |-> [r EXCEPT ![sid] = "default"]]
    ELSE [heap |-> h, ref |-> r]

\* if "model_params" not in st.session_state:
\*     st.session_state.model_params = DEFAULT_MODEL_PARAMS.copy()
InitModelParams(h, r, sid) ==
    IF r[sid] = "unset"
    THEN [heap |-> (sid :> h["default"]) @@ h, ref |-> [r EXCEPT ![sid] = sid]]
    ELSE [heap |-> h, ref |-> r]

\* st.session_state.model_params["temperature"] = temperature
\* st.session_state.model_params["max_tokens"] = max_tokens
StoreParams(h, r, sid, temperature, max_tokens) ==
    [h EXCEPT ![r[sid]] = [temperature |-> temperature, max_tokens |-> max_tokens]]

InitParams ==
    /\ session = NoSession
    /\ pc = "idle"
    /\ raised = "none"
    /\ net = <<>>
    /\ turn = NoTurn
    /\ calls = <<>>
    /\ clicked = FALSE
    /\ environ = ValidEnv
    /\ st_secrets = NoSecrets
    /\ heap = OnlyDefault
    /\ model_params_of = NoParams

InitStateOf(sid) ==
    /\ model_params_of[sid] = "unset"
    /\ LET w == InitModelParams(heap, model_params_of, sid) IN
         /\ heap' = w.heap
         /\ model_params_of' = w.ref
    /\ UNCHANGED <<session, pc, raised, net, turn, calls, clicked, environ, st_secrets>>

SlidersOf(sid) ==
    /\ model_params_of[sid] # "unset"
    /\ \E temperature \in TemperatureSamples \cup {heap[model_params_of[sid]].temperature},
          max_tokens \in MaxTokensSamples \cup {heap[model_params_of[sid]].max_tokens} :
          heap' = StoreParams(heap, model_params_of, sid, temperature, max_tokens)
    /\ UNCHANGED <<session, pc, raised, net, turn, calls, clicked, environ, st_secrets,
                   model_params_of>>

NextParams ==
    \/ \E sid \in SessionIds : InitStateOf(sid)
    \/ \E sid \in SessionIds : SlidersOf(sid)

SpecParams == InitParams /\ [][NextParams]_vars

-----------------------------------------------------------------------------
(* Properties *)

UserMsg(content) == NewMessage("user", content, <<>>)
AssistantMsg(content) == NewMessage("assistant", content, <<>>)
LastContent == session.messages[Len(session.messages)].content
EndsWith(text, tail) ==
    /\ Len(text) >= Len(tail)
    /\ SubSeq(text, Len(text) - Len(tail) + 1, Len(text)) = tail

\* C1: when the completion call of a turn fails (the credentials check, the
\* pre-flight or the request itself raises), the exception does not leave
\* render_chat: last_error is a non-empty text ending with the text of the
\* exception, the transcript is the one before the turn plus the submitted
\* user message, and is_thinking is false.
C1_FailedTurnIsCaught ==
    (turn.phase = "failed" /\ turn.raw = PyNone) =>
        /\ pc = "idle"
        /\ raised = "none"
        /\ session.last_error.t = "str"
        /\ Len(session.last_error.v) > 0
        /\ Len(turn.msg) > 0
        /\ EndsWith(session.last_error.v, turn.msg)
        /\ session.messages = Append(turn.before, UserMsg(turn.input))
        /\ session.is_thinking = FALSE

C1_Witness ==
    /\ turn.phase = "failed"
    /\ turn.exc = "ConnectError"
    /\ Len(turn.before) > 0
    /\ Len(net) = 2

\* C2: when the completion call of a turn has returned a raw reply, the
\* transcript is the one before the turn plus the submitted user message and
\* an assistant message holding the unwrapped reply, last_error is None and
\* is_thinking is false.
C2_SucceededTurnAppendsTwo ==
    (pc = "idle" /\ turn.raw # PyNone) =>
        /\ Len(session.messages) = Len(turn.before) + 2
        /\ session.messages =
             turn.before \o <<UserMsg(turn.input),
                              AssistantMsg(Normalize(turn.raw.v).value)>>
        /\ session.last_error = PyNone
        /\ session.is_thinking = FALSE

\* the shapes of a raw reply
IsObject(x) == x.t = "dict"
HasKey(x, key) == IsObject(x) /\ <<key>> \in DOMAIN x.v
HasEnvelope(raw) ==
    LET d == JsonLoads(raw) IN
    /\ d.ok
    /\ HasKey(d.val, "answer")
    /\ HasKey(d.val.v[<<"answer">>], "user")
NestedUser(raw) == JsonLoads(raw).val.v[<<"answer">>].v[<<"user">>]
\* JSON whose top-level value, or whose answer, is no object
NonObjectShape(raw) ==
    LET d == JsonLoads(raw) IN
    /\ d.ok
    /\ \/ ~IsObject(d.val)
       \/ HasKey(d.val, "answer") /\ ~IsObject(d.val.v[<<"answer">>])
\* no JSON, or an object without answer, or an answer object without user,
\* or a falsy user
FallbackShape(raw) ==
    LET d == JsonLoads(raw) IN
    \/ ~d.ok
    \/ IsObject(d.val) /\ ~HasKey(d.val, "answer")
    \/ /\ HasKey(d.val, "answer")
       /\ IsObject(d.val.v[<<"answer">>])
       /\ ~HasKey(d.val.v[<<"answer">>], "user")
    \/ HasEnvelope(raw) /\ ~Truthy(NestedUser(raw))

\* C3: the unwrapping of a raw reply never raises: whatever the reply, the
\* turn ends without an exception, and a reply that is JSON but whose
\* top-level value or whose answer is no object is kept as it is.
C3_NormalizeNeverRaises ==
    turn.raw # PyNone =>
        /\ turn.exc = "none"
        /\ turn.phase = "succeeded"
        /\ NonObjectShape(turn.raw.v) => LastContent = turn.raw

C5_NonTextLeafFallsBack ==
    (turn.raw # PyNone /\ turn.phase = "succeeded") =>
        /\ LastContent.t = "str"
        /\ (/\ HasEnvelope(turn.raw.v)
            /\ Truthy(NestedUser(turn.raw.v))
            /\ NestedUser(turn.raw.v).t # "str") => LastContent = turn.raw

\* C6: init_state keeps every key that is set with its value, whichever keys
\* are set, and a second call changes nothing.
C6_InitNeverOverwrites ==
    \A i \in 1..Len(calls) :
        /\ \A key \in DOMAIN calls[i].before :
              /\ key \in DOMAIN calls[i].after
              /\ calls[i].after[key] = calls[i].before[key]
        /\ i >= 2 => calls[i].after = calls[i].before

C6_Witness ==
    /\ Len(calls) = 2
    /\ DOMAIN calls[1].before = {"mode", "last_error"}
    /\ calls[1].before.mode = "Coder"
    /\ calls[1].before.last_error = Text("old error")
    /\ DOMAIN calls[1].after # DOMAIN calls[1].before

SixKeys ==
    {"messages", "mode", "system_prompt", "model_params", "is_thinking", "last_error"}

C8_AppendKeepsOrder ==
    /\ Len(session.messages) = Len(calls)
    /\ \A i \in 1..Len(calls) :
          /\ i <= Len(session.messages)
          /\ session.messages[i].role = calls[i].role
          /\ session.messages[i].content = calls[i].content
          /\ calls[i].before = SubSeq(session.messages, 1, i - 1)

C8_Witness ==
    /\ Len(calls) = 3
    /\ calls[1].role = "tool"
    /\ calls[2].role = "assistant"
    /\ calls[3].role = "user"
    /\ calls[1].content # calls[2].content
    /\ DOMAIN calls[3].meta # {}

\* C9: a press of the clear button empties messages and sets last_error to
\* None, and leaves mode, system_prompt, model_name, model_params and
\* is_thinking as they were.
C9_ClearKeepsSettings ==
    [][(pc = "sidebar_clear" /\ clicked') =>
          /\ session'.messages = <<>>
          /\ session'.last_error = PyNone
          /\ DOMAIN session' = DOMAIN session
          /\ \A key \in {"mode", "system_prompt", "model_name", "model_params",
                         "is_thinking"} : session'[key] = session[key]]_vars

C9_Witness ==
    /\ clicked
    /\ pc = "render_chat"
    /\ session.messages = <<>>
    /\ session.mode = "Coder"
    /\ session.model_name = Text("GigaChat-2-Max")
    /\ session.model_params = [temperature |-> 50, max_tokens |-> 256]

\* C10: a submission made while the resolved credentials or the resolved
\* scope is missing or empty ends in RuntimeError, the error of a wrong
\* configuration, with no request issued: neither the pre-flight nor the
\* completion request.
C10_NoRequestWithoutCredentials ==
    LET settings == ResolveSettings(environ, st_secrets) IN
    (turn.phase # "none"
       /\ (~Truthy(settings.credentials) \/ ~Truthy(settings.scope))) =>
        /\ turn.phase = "failed"
        /\ turn.exc = "RuntimeError"
        /\ net = <<>>
        /\ pc = "idle"

C10_Witness ==
    /\ turn.phase = "failed"
    /\ Truthy(ResolveSettings(environ, st_secrets).credentials)
    /\ ResolveSettings(environ, st_secrets).scope = PyStr(<<>>)
    /\ net = <<>>
    /\ session.last_error # PyNone


\* the request client.chat was called with in this script run
ChatIssued == Len(net) = 2 /\ net[2].call = "client.chat"
Wire == net[2].body.messages
NonEmptyPrompt(sp) == sp.t = "str" /\ sp.v # <<>>
KeptRoles == {"user", "assistant", "system"}

\* C11: the message list of the completion request is the system prompt as
\* a system message first exactly when the system prompt is non-empty, then
\* one message per transcript message in order with the same content; the
\* roles user, assistant and system are kept, any other role or a missing
\* role becomes user; its length is the transcript length, plus one when
\* the system prompt is non-empty.
C11_WireListFollowsTranscript ==
    (pc = "chat" /\ ChatIssued) =>
        LET tr == session.messages
            sp == session.system_prompt
            off == IF NonEmptyPrompt(sp) THEN 1 ELSE 0
        IN
        /\ Len(Wire) = Len(tr) + off
        /\ NonEmptyPrompt(sp) => Wire[1] = [role |-> "system", content |-> sp]
        /\ \A i \in 1..Len(tr) :
              /\ i + off \in DOMAIN Wire
              /\ Wire[i + off].content = tr[i].content
              /\ Wire[i + off].role =
                    IF "role" \in DOMAIN tr[i] /\ tr[i].role \in KeptRoles
                    THEN tr[i].role ELSE "user"

\* a request built from a transcript that holds a "tool" message and one
\* without a role, with a non-empty system prompt
C11_Witness ==
    /\ pc = "chat" /\ ChatIssued
    /\ NonEmptyPrompt(session.system_prompt)
    /\ Len(session.messages) = 2
    /\ "role" \in DOMAIN session.messages[1] /\ session.messages[1].role = "tool"
    /\ "role" \notin DOMAIN session.messages[2]
    /\ Wire[2].role = "user" /\ Wire[3].role = "user"

\* the variable of the environment and the key of the secrets section that
\* hold a field of the settings
EnvVar ==
    [credentials |-> "GIGACHAT_CREDENTIALS", scope |-> "GIGACHAT_SCOPE",
     model |-> "GIGACHAT_MODEL", ca_bundle_file |-> "GIGACHAT_CA_BUNDLE_FILE"]
EnvValue(key) == GetSettingsFromEnv(environ)[key]
SecretSet(key) ==
    /\ st_secrets.has_gigachat
    /\ key \in DOMAIN st_secrets.cfg
    /\ st_secrets.cfg[key].t = "str"
    /\ st_secrets.cfg[key].v # <<>>

\* C12: for each of credentials, scope, model and ca_bundle_file the
\* settings a turn resolved hold the value of the secrets section when it
\* is present and non-empty, and the value of the environment otherwise.
C12_SecretsOverrideOnlyNonEmpty ==
    turn.phase # "none" =>
        \A key \in SettingKeys :
            ResolveSettings(environ, st_secrets)[key] =
                IF SecretSet(key) THEN st_secrets.cfg[key] ELSE EnvValue(key)

\* the part of C12 the code keeps: a secrets value that is set and
\* non-empty always wins, and without a secrets section the environment
\* decides
C12_NonEmptySecretWins ==
    turn.phase # "none" =>
        \A key \in SettingKeys :
            /\ SecretSet(key) =>
                  ResolveSettings(environ, st_secrets)[key] = st_secrets.cfg[key]
            /\ ~st_secrets.has_gigachat =>
                  ResolveSettings(environ, st_secrets)[key] = EnvValue(key)

\* the two ways the environment loses to a secrets section that has no
\* value for the field
C12_EmptySecretHidesEnv ==
    /\ turn.phase = "failed" /\ net = <<>>
    /\ Truthy(EnvValue("credentials")) /\ Truthy(EnvValue("scope"))
    /\ ~SecretSet("credentials")
    /\ ResolveSettings(environ, st_secrets).credentials = PyStr(<<>>)

C12_AbsentModelHidesEnv ==
    /\ turn.phase # "none"
    /\ st_secrets.has_gigachat /\ "model" \notin DOMAIN st_secrets.cfg
    /\ EnvValue("model") = Text("GigaChat-2-Max")
    /\ ResolveSettings(environ, st_secrets).model = Text("GigaChat-2")

\* the completion call of a turn is under way: generate_reply waits for its
\* pre-flight request or for client.chat
Dispatched == turn.phase = "dispatched"
RolesOf(messages) == [i \in 1..Len(messages) |-> messages[i].role]

\* C13: while the completion call of a turn is under way last_error is
\* None; last_error changes only to None or to the error of the turn that
\* fails in that step, so it is None or the error of the most recent turn;
\* a turn that succeeds ends with last_error None, also after a failed one.
C13_NoStaleError ==
    /\ [](Dispatched => session.last_error = PyNone)
    /\ [](turn.phase = "succeeded" => session.last_error = PyNone)
    /\ [][(Has(session, "last_error") /\ session'.last_error # session.last_error)
            => \/ session'.last_error = PyNone
               \/ /\ turn'.phase = "failed"
                  /\ session'.last_error = PyStr(ErrorPrefix \o turn'.msg)]_vars

\* a turn succeeded right after a failed turn, whose user message is still
\* unanswered in the transcript
C13_Witness ==
    /\ turn.phase = "succeeded"
    /\ RolesOf(session.messages) = <<"user", "user", "assistant">>
    /\ session.last_error = PyNone

C14_UnknownModeRaises ==
    /\ Len(calls) >= 1
    /\ calls[1].before = ("mode" :> "Unknown")
    /\ calls[1].exc = "KeyError"
    /\ session = calls[1].before @@ ("messages" :> <<>>)

ChatRequestsIn(requests) ==
    Cardinality({i \in 1..Len(requests) : requests[i].call = "client.chat"})

\* C15: is_thinking is true exactly while the completion call of a turn is
\* under way (from the submission until generate_reply returns or raises),
\* and false before any submission, between turns and once the turn has
\* succeeded or failed; a script run issues at most one completion request,
\* and no step starts another turn while one is under way.
C15_ThinkingOnlyInFlight ==
    /\ [](IF Has(session, "is_thinking")
          THEN session.is_thinking <=> Dispatched
          ELSE ~Dispatched)
    /\ [](ChatRequestsIn(net) <= 1 /\ (pc = "chat" <=> ChatRequestsIn(net) = 1 /\ Dispatched))
    /\ [][Dispatched => (turn'.before = turn.before /\ turn'.input = turn.input)]_vars

\* the completion request of a second turn is outstanding
C15_Witness ==
    /\ pc = "chat" /\ ChatIssued
    /\ session.is_thinking
    /\ RolesOf(session.messages) = <<"user", "assistant", "user">>

TurnEnded == turn.phase \in {"succeeded", "failed"}

\* the phases a step takes a turn through; a turn that fails in
\* _create_client before any request passes from none to failed in the one
\* step of its submission
PhaseSteps ==
    { <<"none", "none">>, <<"none", "dispatched">>, <<"none", "failed">>,
      <<"dispatched", "dispatched">>, <<"dispatched", "succeeded">>,
      <<"dispatched", "failed">>, <<"succeeded", "none">>, <<"failed", "none">> }

\* C16: a turn whose completion call is under way eventually ends, succeeded
\* or failed, with the script run over; from there the next script run can
\* start, after a failed turn as after a succeeded one; the phases of a
\* turn follow none, dispatched, succeeded or failed, none.
C16_TurnEndsAndSessionGoesOn ==
    /\ Dispatched ~> (TurnEnded /\ pc = "idle")
    /\ [](TurnEnded => (pc = "idle" /\ ENABLED Main))
    /\ [][(<<turn.phase, turn'.phase>> \in PhaseSteps)]_vars

\* the completion call of a turn is under way right after a failed turn,
\* whose user message is still unanswered
C16_Witness ==
    /\ Dispatched /\ pc = "chat"
    /\ RolesOf(session.messages) = <<"user", "user">>

Names(msg, path) == \E i \in 1..Len(msg), j \in 1..Len(path) : msg[i] = path[j]

\* C17: when the pre-flight request fails on the certificate, the turn
\* fails with a RuntimeError whose message names ca_bundle_file and
\* client.chat is never called; when it fails in any other way, the error
\* is dropped and client.chat is called as after a response.
C17_PreflightDecides ==
    LET ca == ResolveSettings(environ, st_secrets).ca_bundle_file IN
    /\ turn.preflight = "SSLError" =>
          /\ turn.phase = "failed"
          /\ turn.exc = "RuntimeError"
          /\ ca # PyNone => Names(turn.msg, ca.v)
          /\ EndsWith(session.last_error.v, turn.msg)
          /\ ChatRequestsIn(net) = 0
    /\ turn.preflight \in {"other error", "response"} =>
          /\ ChatRequestsIn(net) = 1
          /\ net[2] = ChatRequest([session EXCEPT !.messages = turn.before
                                     \o <<UserMsg(turn.input)>>],
                                  ResolveSettings(environ, st_secrets))
          /\ turn.exc # "RuntimeError"

\* the certificate check failed against the bundle named in st.secrets
C17_Witness ==
    /\ turn.preflight = "SSLError"
    /\ ResolveSettings(environ, st_secrets).ca_bundle_file = Text("secret.cer")
    /\ Names(turn.msg, <<"secret.cer">>)
    /\ Len(net) = 1

\* the pre-flight failed otherwise and the completion request is outstanding
C17_OtherErrorSwallowed ==
    /\ turn.preflight = "other error"
    /\ pc = "chat" /\ ChatIssued

\* the sampling parameters a session reads through its model_params
ParamsOf(h, r, sid) == IF r[sid] = "unset" THEN "unset" ELSE h[r[sid]]

\* C18: no step changes the sampling parameters of two sessions at once,
\* and DEFAULT_MODEL_PARAMS never changes: whatever one session sets, the
\* other sessions read what they read before, and a session that starts
\* later starts from the defaults of config.py.
C18_ParamsAreOwnCopy ==
    /\ [](heap["default"] = DEFAULT_MODEL_PARAMS)
    /\ [][\A a \in SessionIds : \A b \in SessionIds \ {a} :
            (/\ model_params_of[a] # "unset"
             /\ ParamsOf(heap', model_params_of', a) # ParamsOf(heap, model_params_of, a))
            => /\ heap'["default"] = heap["default"]
               /\ ParamsOf(heap', model_params_of', b) = ParamsOf(heap, model_params_of, b)]_vars

\* one session has moved both sliders, the other two still read the defaults
C18_Witness ==
    /\ model_params_of["A"] # "unset" /\ model_params_of["B"] # "unset"
    /\ model_params_of["C"] # "unset"
    /\ ParamsOf(heap, model_params_of, "A") = [temperature |-> 50, max_tokens |-> 256]
    /\ ParamsOf(heap, model_params_of, "B") = DEFAULT_MODEL_PARAMS
    /\ ParamsOf(heap, model_params_of, "C") = DEFAULT_MODEL_PARAMS

IsPrefix(a, b) == Len(a) <= Len(b) /\ SubSeq(b, 1, Len(a)) = a
Transcript(s) == Lookup(s, "messages", <<>>)
ClearStep == pc = "sidebar_clear" /\ clicked'

\* C19: every step that is not a press of the clear button (init_state, a
\* change of mode, model or parameters, a submission, a failed or succeeded
\* end of a turn) leaves the messages it found in place, unchanged and in
\* their order, and at most appends to them.
C19_AppendOnlyBetweenClears ==
    [][~ClearStep => IsPrefix(Transcript(session), Transcript(session'))]_vars

\* a turn failed on a transcript that already held a question and its
\* answer, which are still its first two messages
C19_Witness ==
    /\ turn.phase = "failed"
    /\ RolesOf(turn.before) = <<"user", "assistant">>
    /\ IsPrefix(turn.before, session.messages)
    /\ Len(session.messages) = 3

CountRole(messages, role) ==
    Cardinality({i \in 1..Len(messages) : messages[i].role = role})

\* C20: in every state every assistant message of the transcript follows a
\* user message directly and there are no more assistant than user
\* messages; the messages of a completion request end with the user
\* message just submitted; a failed turn leaves its user message in the
\* transcript, so the request of the next turn holds two user messages in
\* a row.
C20_AnswersFollowQuestions ==
    LET messages == Transcript(session) IN
    /\ \A i \in 1..Len(messages) :
          messages[i].role = "assistant" => (i > 1 /\ messages[i - 1].role = "user")
    /\ CountRole(messages, "assistant") <= CountRole(messages, "user")
    /\ ChatIssued =>
          Wire[Len(Wire)] = [role |-> "user", content |-> turn.input]
    /\ Dispatched => messages = turn.before \o <<UserMsg(turn.input)>>
    /\ turn.phase = "failed" => messages = turn.before \o <<UserMsg(turn.input)>>
    /\ (ChatIssued /\ turn.before # <<>>
        /\ turn.before[Len(turn.before)].role = "user") =>
          /\ Len(Wire) >= 2
          /\ Wire[Len(Wire) - 1] =
                [role |-> "user", content |-> turn.before[Len(turn.before)].content]

\* the completion request of the turn after a failed turn is outstanding
\* and its last two messages are the two questions
C20_Witness ==
    /\ pc = "chat" /\ ChatIssued
    /\ turn.before = <<UserMsg(PyStr(<<"q1">>))>>
    /\ turn.input = PyStr(<<"q2">>)
    /\ Len(Wire) = 3
    /\ Wire[2] = [role |-> "user", content |-> PyStr(<<"q1">>)]
    /\ Wire[3] = [role |-> "user", content |-> PyStr(<<"q2">>)]

PromptOf(mode) == AVAILABLE_MODES[mode].system_prompt

\* C21: in every state from an empty session on, once init_state has run,
\* system_prompt is the prompt AVAILABLE_MODES holds for the session's
\* mode, and the system message of every completion request is that
\* prompt.
C21_PromptIsTheModesPrompt ==
    /\ Has(session, "mode") =>
          /\ session.mode \in ModeSet
          /\ session.system_prompt = PromptOf(session.mode)
    /\ ChatIssued =>
          Wire[1] = [role |-> "system", content |-> PromptOf(session.mode)]

\* the completion request of a turn submitted after a switch to the second
\* mode is outstanding
C21_Witness ==
    /\ pc = "chat" /\ ChatIssued
    /\ session.mode = ModeNames[2]
    /\ Wire[1].content = PromptOf(ModeNames[2])
    /\ PromptOf(ModeNames[2]) # PromptOf(ModeNames[1])

InSliderRanges(model_params) ==
    /\ model_params.temperature \in TemperatureMin..TemperatureMax
    /\ model_params.max_tokens \in MaxTokensMin..MaxTokensMax

\* C22: the model_params init_state gives an empty session lie inside the
\* ranges of the sliders: temperature in [0.0, 1.0] and max_tokens in
\* [256, 4096].
C22_DefaultsInSliderRanges ==
    \A i \in 1..Len(calls) :
        (calls[i].before = NoSession /\ calls[i].exc = "none") =>
            InSliderRanges(calls[i].after.model_params)

\* the part of C22 the code keeps: the default temperature is in range
C22_DefaultTemperatureInRange ==
    \A i \in 1..Len(calls) :
        (calls[i].before = NoSession /\ calls[i].exc = "none") =>
            calls[i].after.model_params.temperature \in TemperatureMin..TemperatureMax

\* init_state gave an empty session max_tokens above the slider's maximum
C22_DefaultMaxTokensAboveRange ==
    /\ Len(calls) >= 1
    /\ calls[1].before = NoSession
    /\ calls[1].after.model_params.max_tokens > MaxTokensMax

\* the steps of the mode selectbox, the model selectbox and the two sliders
SettingsStep == pc \in {"sidebar_mode", "sidebar_model", "sidebar_params"}

\* C23: a step of the mode selectbox, of the model selectbox or of the
\* sliders leaves messages and last_error as they were, whatever is
\* selected; a change of mode does not clear the transcript.
C23_SettingsKeepTranscriptAndError ==
    [][SettingsStep =>
          /\ session'.messages = session.messages
          /\ session'.last_error = session.last_error]_vars

\* the three controls have run on a session that holds the question of a
\* failed turn and its error, and mode, model and parameters are not the
\* initial ones
C23_Witness ==
    /\ pc = "sidebar_clear"
    /\ RolesOf(session.messages) = <<"user">>
    /\ session.last_error # PyNone
    /\ session.mode = ModeNames[3]
    /\ session.model_name = PyStr(<<ModelOptions[3]>>)
    /\ session.model_params = [temperature |-> 50, max_tokens |-> 256]

====
